---- MODULE Spec2Model ----
(***************************************************************************)
(* State-machine model of the Kanban board component                       *)
(* (src/src/frontend/lib/types/Tasks.tsx): the card store, the column      *)
(* registry, the task mutation controller with its asynchronous backend    *)
(* calls, the drag-and-drop bookkeeping, and the backend the calls go to.  *)
(*                                                                         *)
(* Strings that the code computes on (column ids, labels) are sequences of *)
(* one-character strings; null is 0 for a task id, <<>> for a column id    *)
(* and for an optional record (<<r>> when present).                        *)
(***************************************************************************)
EXTENDS Integers, Sequences, FiniteSets, TLC

\* ------------------------------------------------------------------ bounds

\* Backend calls of the mutation handlers that may be outstanding at once.
MaxInFlight == 2
\* Cards the backend ever creates (ids 1..MaxCards).
MaxCards == 2
\* Backend calls the mutation handlers issue in one run.
MaxCalls == 2
\* The same, in the runs that only delete tasks.
MaxDeleteCalls == 3
\* Columns the operator adds and moveColumn steps they take in one run.
MaxColumnEdits == 2
\* The longest card list the backend holds as a filter run starts.
MaxListed == 2
Slots == 1..MaxInFlight
TaskIds == 1..MaxCards

\* ------------------------------------------------------------- vocabulary

backlog == <<"b","a","c","k","l","o","g">>
inProgress == <<"i","n","-","p","r","o","g","r","e","s","s">>
review == <<"r","e","v","i","e","w">>
done == <<"d","o","n","e">>

\* const defaultColumns (useMemo)
defaultColumns ==
  << [id |-> backlog, label |-> <<"B","a","c","k","l","o","g">>, color |-> "gray"],
     [id |-> inProgress, label |-> <<"I","n"," ","P","r","o","g","r","e","s","s">>, color |-> "indigo"],
     [id |-> review, label |-> <<"I","n"," ","R","e","v","i","e","w">>, color |-> "yellow"],
     [id |-> done, label |-> <<"D","o","n","e">>, color |-> "green"] >>

\* Titles the operator types into the task form.
Titles == { <<"t","1">> }

\* Labels the operator types into the column form.
Labels == { <<"Q","A">>, <<"D","o","n","e">>, <<"!">> }

\* Suffixes Math.random() may produce in generateId.
RandomIds == { <<"x","1">> }

\* ---------------------------------------------------------------- helpers

Range(s) == { s[i] : i \in 1..Len(s) }

RECURSIVE MapSeq(_, _)
\* Array.prototype.map
MapSeq(F(_), s) == IF s = <<>> THEN <<>> ELSE <<F(Head(s))>> \o MapSeq(F, Tail(s))

RECURSIVE FilterSeq(_, _)
\* Array.prototype.filter
FilterSeq(P(_), s) ==
  IF s = <<>> THEN <<>>
  ELSE (IF P(Head(s)) THEN <<Head(s)>> ELSE <<>>) \o FilterSeq(P, Tail(s))

\* Array.prototype.findIndex, 1-based; 0 when absent (the code's -1)
FindIndex(P(_), s) ==
  IF \E i \in 1..Len(s) : P(s[i])
  THEN CHOOSE i \in 1..Len(s) : P(s[i]) /\ \A j \in 1..(i-1) : ~P(s[j])
  ELSE 0

ColumnIds(cols) == { cols[i].id : i \in 1..Len(cols) }

\* ---------------------------------------------------------------- slugify

UpperChars ==
  <<"A","B","C","D","E","F","G","H","I","J","K","L","M",
    "N","O","P","Q","R","S","T","U","V","W","X","Y","Z">>
LowerChars ==
  <<"a","b","c","d","e","f","g","h","i","j","k","l","m",
    "n","o","p","q","r","s","t","u","v","w","x","y","z">>
DigitChars == {"0","1","2","3","4","5","6","7","8","9"}

\* String.prototype.toLowerCase on one character
ToLowerChar(c) ==
  IF \E i \in 1..Len(UpperChars) : UpperChars[i] = c
  THEN LowerChars[CHOOSE i \in 1..Len(UpperChars) : UpperChars[i] = c]
  ELSE c

\* the character class [a-z0-9]
IsSlugChar(c) == c \in Range(LowerChars) \cup DigitChars

RECURSIVE CollapseRuns(_, _)
\* .replace(/[^a-z0-9]+/g, '-'): inRun is TRUE while inside a run already replaced
CollapseRuns(s, inRun) ==
  IF s = <<>> THEN <<>>
  ELSE IF IsSlugChar(Head(s)) THEN <<Head(s)>> \o CollapseRuns(Tail(s), FALSE)
  ELSE IF inRun THEN CollapseRuns(Tail(s), TRUE)
  ELSE <<"-">> \o CollapseRuns(Tail(s), TRUE)

\* .replace(/(^-|-$)+/g, '')
TrimDashes(s) ==
  LET a == IF s # <<>> /\ Head(s) = "-" THEN Tail(s) ELSE s
  IN  IF a # <<>> /\ a[Len(a)] = "-" THEN SubSeq(a, 1, Len(a) - 1) ELSE a

\* the slug before the empty-result fallback
SlugOf(value) == TrimDashes(CollapseRuns(MapSeq(ToLowerChar, value), FALSE))

\* slugify: the slugs a label may get (several only when generateId is used)
slugify(value) ==
  IF Len(SlugOf(value)) > 0 THEN { SlugOf(value) }
  ELSE { <<"c","o","l","u","m","n","-">> \o r : r \in RandomIds }

\* ------------------------------------------------------------ conversions

\* ---------------------------------------------------------------- strings

RECURSIVE TrimStart(_)
\* String.prototype.trim, the leading spaces
TrimStart(s) == IF s # <<>> /\ Head(s) = " " THEN TrimStart(Tail(s)) ELSE s

RECURSIVE TrimEnd(_)
\* String.prototype.trim, the trailing spaces
TrimEnd(s) == IF s # <<>> /\ s[Len(s)] = " " THEN TrimEnd(SubSeq(s, 1, Len(s) - 1)) ELSE s

\* String.prototype.trim
Trim(s) == TrimEnd(TrimStart(s))

\* String.prototype.toLowerCase
ToLowerCase(s) == MapSeq(ToLowerChar, s)

RECURSIVE Join(_, _)
\* Array.prototype.join
Join(parts, separator) ==
  IF parts = <<>> THEN <<>>
  ELSE IF Len(parts) = 1 THEN parts[1]
  ELSE parts[1] \o separator \o Join(Tail(parts), separator)

\* String.prototype.startsWith
StartsWith(s, prefix) == Len(prefix) <= Len(s) /\ SubSeq(s, 1, Len(prefix)) = prefix

RECURSIVE Includes(_, _)
\* String.prototype.includes
Includes(s, needle) ==
  \/ StartsWith(s, needle)
  \/ s # <<>> /\ Includes(Tail(s), needle)

\* convertCardToTask: the client projection of a server card
\* null in a field of a card
Null == <<"null">>

\* card.field ?? '' and card.tags ?? []
OrEmpty(v) == IF v = Null THEN <<>> ELSE v

convertCardToTask(card) ==
  [ id |-> card.id,
    title |-> card.title,
    description |-> OrEmpty(card.description),
    status |-> card.status,
    priority |-> card.priority,
    dueDate |-> card.due_date,
    assignee |-> OrEmpty(card.assignee),
    tags |-> OrEmpty(card.tags),
    company |-> OrEmpty(card.company),
    companyContactName |-> OrEmpty(card.company_contact_name),
    companyContactPhone |-> OrEmpty(card.company_contact_phone),
    jobNumber |-> OrEmpty(card.job_number),
    serviceQuote |-> OrEmpty(card.service_quote) ]

\* formValuesToPayload: the request body built from the form values
formValuesToPayload(values) ==
  [ title |-> values.title,
    description |-> values.description,
    status |-> values.status,
    priority |-> values.priority,
    due_date |-> values.dueDate,
    assignee |-> values.assignee,
    tags |-> values.tags,
    company |-> values.company,
    company_contact_name |-> values.companyContactName,
    company_contact_phone |-> values.companyContactPhone,
    job_number |-> values.jobNumber,
    service_quote |-> values.serviceQuote ]

\* ------------------------------------------------------------------ state

VARIABLES
  columns,               \* useState columns: the committed column registry
  tasks,                 \* useState tasks: the card store
  taskModalOpen,         \* useState taskModalOpen
  columnModalOpen,       \* useState columnModalOpen
  editingTask,           \* useState editingTask: <<>> or <<task>>
  tagOptions,            \* useState tagOptions
  filters,               \* useState filters
  isReordering,          \* useState isReordering
  pendingColumnOrder,    \* useState pendingColumnOrder
  columnDeletionContext, \* useState columnDeletionContext: <<>> or <<context>>
  draggingTaskId,        \* useState draggingTaskId: 0 is null
  dragOverColumnId,      \* useState dragOverColumnId: <<>> is null
  savingTask,            \* useState savingTask
  deletingTaskId,        \* useState deletingTaskId: 0 is null
  statusUpdating,        \* useState statusUpdating
  dragPayload,           \* event.dataTransfer 'text/plain' of the drag gesture under way: 0 is none
  reqs,                  \* the mutation handlers' backend calls under way, by slot
  query,                 \* cardsQuery: the fetch of the card list and its data
  cards,                 \* the backend's card list
  nextCardId,            \* the id the backend gives to the next created card
  callsLeft,             \* backend calls the mutation handlers may still issue (the run's bound)
  editsLeft,             \* columns and moveColumn steps still allowed (the run's bound)
  last                   \* the handler outcome of the last step (history)

storeVars == <<columns, tasks, filters, tagOptions>>
modalVars == <<taskModalOpen, columnModalOpen, editingTask, columnDeletionContext>>
reorderVars == <<isReordering, pendingColumnOrder>>
dragVars == <<draggingTaskId, dragOverColumnId, dragPayload>>
busyVars == <<savingTask, deletingTaskId, statusUpdating>>
netVars == <<reqs, query, cards, nextCardId, callsLeft>>

vars == <<storeVars, modalVars, reorderVars, dragVars, busyVars, netVars, editsLeft, last>>

\* No card / no request body.
NoBody ==
  [ title |-> <<>>, description |-> <<>>, status |-> <<>>, priority |-> "medium",
    due_date |-> "", assignee |-> <<>>, tags |-> <<>>, company |-> <<>>,
    company_contact_name |-> <<>>, company_contact_phone |-> <<>>, job_number |-> <<>>,
    service_quote |-> <<>> ]
NoCard == [ id |-> 0 ] @@ NoBody

\* A free slot of reqs. A slot in use holds the call (kind, id, body), how far
\* it got (phase: sent, ok = answered and the answer under way, refetch = the
\* handler awaits invalidateQueries), the answer (resp), and what the handler's
\* closure holds: prev (currentTask.status), editing (editingTask), whether
\* handleColumnDrop awaits it (drop) and which handleDeleteColumn awaits it
\* (job, col, with the ids of its affectedTasks in jobIds). closed records
\* that closeTaskModal ran since the submit.
NoReq ==
  [ kind |-> "none", phase |-> "none", id |-> 0, body |-> NoBody, resp |-> NoCard,
    prev |-> <<>>, editing |-> <<>>, drop |-> FALSE, job |-> 0, col |-> <<>>,
    jobIds |-> {}, closed |-> FALSE ]

\* No handler outcome to report.
\* gone lists the column deletions that ended in the step, task holds the
\* task made of the response that arrived in it, drops the tasks whose
\* handleColumnDrop ran to its end in it.
NoEvent ==
  [ op |-> "none", id |-> 0, status |-> <<>>, editing |-> <<>>, closed |-> FALSE, gone |-> {},
    task |-> <<>>, label |-> <<>>, drops |-> {} ]

\* DEFAULT_TAG_OPTIONS
DEFAULT_TAG_OPTIONS ==
  << <<"S","e","r","v","i","c","e"," ","o","r","d","e","r","s">>,
     <<"P","u","r","c","h","a","s","e"," ","o","r","d","e","r","s">>,
     <<"S","a","l","e","s"," ","o","r","d","e","r","s">>,
     <<"M","i","s","c","e","l","l","a","n","e","o","u","s">> >>

RECURSIVE Unique(_)
\* Array.from(new Set(list)): the first occurrence of each value, in order
Unique(list) ==
  IF list = <<>> THEN <<>>
  ELSE LET rest == Unique(SubSeq(list, 1, Len(list) - 1))
           value == list[Len(list)]
       IN  IF \E i \in 1..Len(rest) : rest[i] = value THEN rest ELSE Append(rest, value)

RECURSIVE FlatTags(_)
\* list.flatMap((task) => task.tags)
FlatTags(list) == IF list = <<>> THEN <<>> ELSE Head(list).tags \o FlatTags(Tail(list))

\* serverTags of the effect on tasks: the non-empty tags of the store, once each
ServerTags(list) == Unique(FilterSeq(LAMBDA tag : tag # <<>>, FlatTags(list)))

\* The updater of setTagOptions in the effect on tasks, without the default
\* tags and the current entries
CombinedTagsServerOnly(current, list) == ServerTags(list)

\* The updater of setTagOptions in the effect on tasks
CombinedTags(current, list) ==
  LET combined == Unique(DEFAULT_TAG_OPTIONS \o current \o ServerTags(list))
  IN  IF Len(combined) = Len(current) /\ \A i \in 1..Len(combined) : combined[i] \in Range(current)
      THEN current
      ELSE combined

\* tagOptions after the effect on tasks ran for the store given
TagOptionsAfter(current, list) ==
  IF Len(ServerTags(list)) = 0 THEN current ELSE CombinedTags(current, list)

\* useState initial value of filters
defaultFilters ==
  [ search |-> <<>>, column |-> <<"a","l","l">>, priority |-> "all", tags |-> <<>>,
    assignee |-> <<"a","l","l">>, jobNumber |-> <<"a","l","l">>,
    serviceQuote |-> <<"a","l","l">> ]

\* 'all', the sentinel of the assignee, job number and service quote filters.
All == <<"a","l","l">>

\* The sentinel of the column filter.
AllColumns == <<"a","l","l">>

\* A card of the backend as a run starts.
InitialCard(id, status) ==
  [ NoCard EXCEPT !.id = id, !.title = <<"t","1">>, !.status = status, !.description = Null ]

\* The state after the component has mounted, the fetch of the card list
\* under way, with the backend holding the cards cs and n backend calls of
\* the mutation handlers allowed in the run.
Mounted(cs, n) ==
  /\ columns = defaultColumns
  /\ tasks = <<>>
  /\ taskModalOpen = FALSE
  /\ columnModalOpen = FALSE
  /\ editingTask = <<>>
  /\ filters = defaultFilters
  /\ tagOptions = DEFAULT_TAG_OPTIONS
  /\ isReordering = FALSE
  /\ pendingColumnOrder = defaultColumns
  /\ columnDeletionContext = <<>>
  /\ draggingTaskId = 0
  /\ dragOverColumnId = <<>>
  /\ savingTask = FALSE
  /\ deletingTaskId = 0
  /\ statusUpdating = {}
  /\ dragPayload = 0
  /\ reqs = [s \in Slots |-> NoReq]
  /\ query = [phase |-> "sent", resp |-> <<>>, data |-> <<>>]
  /\ cards = cs
  /\ nextCardId = Len(cs) + 1
  /\ callsLeft = n
  /\ editsLeft = MaxColumnEdits
  /\ last = NoEvent

Init == Mounted(<<InitialCard(1, done)>>, MaxCalls)

\* ------------------------------------------------------------ derivations

\* tagFilter.every((tag) => task.tags.includes(tag)), with `some' in place of `every'
HasEveryTagSome(task, tagFilter) ==
  \E i \in 1..Len(tagFilter) : \E j \in 1..Len(task.tags) : task.tags[j] = tagFilter[i]

\* tagFilter.every((tag) => task.tags.includes(tag))
HasEveryTag(task, tagFilter) ==
  \A i \in 1..Len(tagFilter) : \E j \in 1..Len(task.tags) : task.tags[j] = tagFilter[i]

\* The text the search filter looks in.
Haystack(task) ==
  ToLowerCase(Join(<< task.title, task.description, task.assignee, Join(task.tags, <<" ">>),
                      task.company, task.companyContactName, task.companyContactPhone,
                      task.jobNumber, task.serviceQuote >>, <<" ">>))

\* The callback of tasks.filter in filteredTasks, under the criteria given:
\* each IF is one of its early returns.
TaskPasses(task, criteria) ==
  IF criteria.column # AllColumns /\ task.status # criteria.column THEN FALSE
  ELSE IF criteria.priority # "all" /\ task.priority # criteria.priority THEN FALSE
  ELSE IF Len(criteria.tags) > 0 /\ ~HasEveryTag(task, criteria.tags) THEN FALSE
  ELSE IF criteria.assignee # All /\ task.assignee # criteria.assignee THEN FALSE
  ELSE IF criteria.jobNumber # All /\ task.jobNumber # criteria.jobNumber THEN FALSE
  ELSE IF criteria.serviceQuote # All /\ task.serviceQuote # criteria.serviceQuote THEN FALSE
  ELSE IF Len(Trim(criteria.search)) > 0
  THEN Includes(Haystack(task), ToLowerCase(Trim(criteria.search)))
  ELSE TRUE

\* The filter engine on a task list and criteria.
FilterEngine(list, criteria) == FilterSeq(LAMBDA task : TaskPasses(task, criteria), list)

\* filteredTasks
filteredTasks == FilterEngine(tasks, filters)

displayColumns == IF isReordering THEN pendingColumnOrder ELSE columns

visibleColumns ==
  IF isReordering THEN displayColumns
  ELSE IF filters.column = AllColumns THEN displayColumns
  ELSE FilterSeq(LAMBDA column : column.id = filters.column, displayColumns)

\* cardsQuery.isLoading: a fetch is under way and no list has arrived yet
cardsQueryIsLoading == query.phase # "idle" /\ query.data = <<>>

\* The columns on screen: the grid is replaced by a Loader while
\* cardsQuery.isLoading.
RenderedColumns == IF cardsQueryIsLoading THEN <<>> ELSE visibleColumns

\* The cards on screen: columnTasks of the visible columns.
RenderedTasks ==
  { task \in Range(filteredTasks) : task.status \in ColumnIds(RenderedColumns) }

\* No modal covers the board and no drag gesture is under way.
BoardInteractive ==
  /\ ~taskModalOpen
  /\ ~columnModalOpen
  /\ columnDeletionContext = <<>>
  /\ dragPayload = 0

FreeSlots == { s \in Slots : reqs[s].kind = "none" }

\* n more backend calls can be issued.
CanIssue(n) == Cardinality(FreeSlots) >= n /\ callsLeft >= n

\* The n-th free slot, lowest first.
NthFree(n) == CHOOSE s \in FreeSlots : Cardinality({ x \in FreeSlots : x < s }) = n - 1

Waiters == { s \in Slots : reqs[s].phase = "refetch" }

\* tasks.find((task) => task.id === taskId), as <<>> or <<task>>
FindTask(taskId) ==
  LET i == FindIndex(LAMBDA task : task.id = taskId, tasks)
  IN  IF i = 0 THEN <<>> ELSE <<tasks[i]>>

\* ------------------------------------------------- handlers that complete

\* The columns whose handleDeleteColumn has all its status changes among S.
DoneColumns(S, base) ==
  { base[s].col : s \in { x \in S : /\ base[x].job # 0
                                    /\ \A y \in Slots : base[y].job = base[x].job => y \in S } }

\* The column deletions that end with the slots S: the column, its fallback
\* and the ids of the tasks it moved.
DropsEnded(S, base) == { base[s].id : s \in { x \in S : base[x].drop } }

GoneRecords(S, base) ==
  { [ col |-> base[s].col, fallback |-> base[s].body.status, ids |-> base[s].jobIds ] :
      s \in { x \in S : /\ base[x].job # 0
                        /\ \A y \in Slots : base[y].job = base[x].job => y \in S } }

\* markStatusUpdating with the finally block of handleStatusChange left out
markStatusUpdatingSkipped(S, base) == statusUpdating

\* markStatusUpdating(taskId, false) for the status changes among the slots S
markStatusUpdating(S, base) ==
  statusUpdating \ { base[s].id : s \in { x \in S : base[x].kind = "PATCH" } }

\* The handlers of the slots S run to their end: the finally blocks of
\* handleStatusChange and handleDeleteTask, closeTaskModal after a saved
\* submit, handleTaskDragEnd at the end of handleColumnDrop, and the tail of
\* handleDeleteColumn once all its status changes have ended. base is reqs
\* after the step's own change, saving is savingTask after it.
Settle(S, base, saving) ==
  LET closers == { s \in S : base[s].kind \in {"POST", "PUT"} /\ base[s].phase = "refetch" }
      gone == DoneColumns(S, base)
      cols == FilterSeq(LAMBDA column : column.id \notin gone, columns)
  IN  /\ reqs' = [ s \in Slots |->
                     IF s \in S THEN NoReq
                     ELSE IF closers # {} /\ base[s].kind \in {"POST", "PUT"}
                          THEN [base[s] EXCEPT !.closed = TRUE]
                          ELSE base[s] ]
      /\ statusUpdating' = markStatusUpdating(S, base)
      /\ deletingTaskId' =
            IF \E s \in S : base[s].kind = "DELETE" THEN 0 ELSE deletingTaskId
      /\ savingTask' = IF closers # {} THEN FALSE ELSE saving
      /\ taskModalOpen' = IF closers # {} THEN FALSE ELSE taskModalOpen
      /\ editingTask' = IF closers # {} THEN <<>> ELSE editingTask
      /\ draggingTaskId' = IF \E s \in S : base[s].drop THEN 0 ELSE draggingTaskId
      /\ dragOverColumnId' = IF \E s \in S : base[s].drop THEN <<>> ELSE dragOverColumnId
      /\ columns' = cols
      /\ filters' = [filters EXCEPT !.column = IF @ \in gone THEN AllColumns ELSE @]
      /\ columnDeletionContext' = IF gone # {} THEN <<>> ELSE columnDeletionContext
      /\ pendingColumnOrder' = IF ~isReordering THEN cols ELSE pendingColumnOrder

\* What Settle leaves alone besides tasks, query, cards and last.
settleFrame == <<columnModalOpen, isReordering, dragPayload, nextCardId, callsLeft, editsLeft>>

\* ------------------------------------------------------------ status change

\* The guard of handleStatusChange without its comparison of the status
StatusChangeProceedsAlways(taskId, status) == FindTask(taskId) # <<>>

\* handleStatusChange goes past its guard: the task is in the store with another status
StatusChangeProceeds(taskId, status) ==
  /\ FindTask(taskId) # <<>>
  /\ FindTask(taskId)[1].status # status

\* setTasks(current.map(task.id === taskId ? { ...task, status } : task)) for the ids given
WithStatus(store, ids, status) ==
  MapSeq(LAMBDA task : IF task.id \in ids THEN [task EXCEPT !.status = status] ELSE task, store)

\* The PATCH that handleStatusChange sends, with what its closure keeps.
PatchReq(taskId, status, drop, job, col) ==
  [ NoReq EXCEPT !.kind = "PATCH", !.phase = "sent", !.id = taskId,
                 !.body = [NoBody EXCEPT !.status = status],
                 !.prev = FindTask(taskId)[1].status,
                 !.drop = drop, !.job = job, !.col = col ]

\* handleTaskDragEnd without setDragOverColumnId(null)
handleTaskDragEndKeepsHover ==
  /\ draggingTaskId' = 0
  /\ UNCHANGED dragOverColumnId

\* handleTaskDragEnd
handleTaskDragEnd ==
  /\ draggingTaskId' = 0
  /\ dragOverColumnId' = <<>>

\* handleStatusChange up to its await (the drag state is the caller's)
handleStatusChange(taskId, status, drop) ==
  IF StatusChangeProceeds(taskId, status)
  THEN /\ CanIssue(1)
       /\ callsLeft' = callsLeft - 1
       /\ reqs' = [reqs EXCEPT ![NthFree(1)] = PatchReq(taskId, status, drop, 0, <<>>)]
       /\ statusUpdating' = statusUpdating \cup {taskId}
       /\ tasks' = WithStatus(tasks, {taskId}, status)
       /\ tagOptions' = TagOptionsAfter(tagOptions, tasks')
       /\ last' = [NoEvent EXCEPT !.op = "statusSent", !.id = taskId, !.status = status]
  ELSE /\ last' = [NoEvent EXCEPT !.op = "statusNoop", !.id = taskId, !.status = status]
       /\ UNCHANGED <<reqs, callsLeft, statusUpdating, tasks, tagOptions>>

\* The status Select of a card (onChange)
SelectStatus(taskId, status) ==
  /\ BoardInteractive
  /\ \E task \in RenderedTasks : task.id = taskId
  /\ taskId \notin statusUpdating
  /\ deletingTaskId # taskId
  /\ status \in ColumnIds(columns)
  /\ \E task \in RenderedTasks : task.id = taskId /\ task.status # status
  /\ handleStatusChange(taskId, status, FALSE)
  /\ UNCHANGED <<columns, filters, modalVars, reorderVars, dragVars, savingTask,
                 deletingTaskId, query, cards, nextCardId, editsLeft>>

\* ------------------------------------------------------------------ backend

\* The backend's card list after the call of slot s, and its answer.
Served(s) ==
  LET r == reqs[s]
      i == FindIndex(LAMBDA card : card.id = r.id, cards)
  IN  CASE r.kind = "POST" ->
             LET card == [ id |-> nextCardId ] @@ r.body
             IN  [ cards |-> Append(cards, card), resp |-> card ]
        [] r.kind = "PUT" ->
             LET card == [ id |-> r.id ] @@ r.body
             IN  [ cards |-> [cards EXCEPT ![i] = card], resp |-> card ]
        [] r.kind = "PATCH" ->
             LET card == [cards[i] EXCEPT !.status = r.body.status]
             IN  [ cards |-> [cards EXCEPT ![i] = card], resp |-> card ]
        [] r.kind = "DELETE" ->
             [ cards |-> FilterSeq(LAMBDA card : card.id # r.id, cards), resp |-> NoCard ]

\* The backend carries out the call of slot s; its answer is under way.
ServeOk(s) ==
  /\ reqs[s].phase = "sent"
  /\ IF reqs[s].kind = "POST"
     THEN nextCardId <= MaxCards
     ELSE \E i \in 1..Len(cards) : cards[i].id = reqs[s].id
  /\ cards' = Served(s).cards
  /\ nextCardId' = IF reqs[s].kind = "POST" THEN nextCardId + 1 ELSE nextCardId
  /\ reqs' = [reqs EXCEPT ![s].phase = "ok", ![s].resp = Served(s).resp]
  /\ last' = NoEvent
  /\ UNCHANGED <<storeVars, modalVars, reorderVars, dragVars, busyVars, query, callsLeft,
                 editsLeft>>

\* queryClient.invalidateQueries: the card list is fetched again. A fetch
\* under way is joined while the query has no data yet, and otherwise
\* dropped for a new one; the handlers awaiting the dropped fetch resume.
InvalidatedQuery ==
  IF query.phase # "idle" /\ query.data = <<>> THEN query
  ELSE [query EXCEPT !.phase = "sent", !.resp = <<>>]

Resumed == IF query.phase # "idle" /\ query.data # <<>> THEN Waiters ELSE {}

\* The success branches with every answer appended to the store
ReconciledAppending(s) == Append(tasks, convertCardToTask(reqs[s].resp))

\* The success branches without their setTasks
ReconciledKeeping(s) == tasks

\* The updaters of setTasks in the success branches, adding the returned
\* task when the store has no entry with its id
ReconciledFromUpserting(store, r) ==
  LET got == convertCardToTask(r.resp)
  IN  CASE r.kind = "POST" -> Append(store, got)
        [] r.kind \in {"PUT", "PATCH"} ->
             IF \E i \in 1..Len(store) : store[i].id = got.id
             THEN MapSeq(LAMBDA task : IF task.id = got.id THEN got ELSE task, store)
             ELSE Append(store, got)
        [] r.kind = "DELETE" -> FilterSeq(LAMBDA task : task.id # r.id, store)

\* The updaters of setTasks in the success branches, for the call r on the
\* store given.
ReconciledFrom(store, r) ==
  LET got == convertCardToTask(r.resp)
  IN  CASE r.kind = "POST" -> Append(store, got)
        [] r.kind \in {"PUT", "PATCH"} ->
             MapSeq(LAMBDA task : IF task.id = got.id THEN got ELSE task, store)
        [] r.kind = "DELETE" -> FilterSeq(LAMBDA task : task.id # r.id, store)

\* The card store after the answer of slot s has been reconciled.
Reconciled(s) == ReconciledFrom(tasks, reqs[s])

\* The answer of slot s arrives: the handler reconciles the store and then
\* awaits invalidateQueries.
DeliverOk(s) ==
  /\ reqs[s].phase = "ok"
  /\ tasks' = Reconciled(s)
  /\ tagOptions' = TagOptionsAfter(tagOptions, tasks')
  /\ query' = InvalidatedQuery
  /\ Settle(Resumed, [reqs EXCEPT ![s].phase = "refetch"], savingTask)
  /\ last' = [NoEvent EXCEPT
                !.op = CASE reqs[s].kind = "POST" -> "created"
                         [] reqs[s].kind = "PUT" -> "updated"
                         [] reqs[s].kind = "PATCH" -> "statusSaved"
                         [] OTHER -> "deleted",
                !.id = reqs[s].id,
                !.task = IF reqs[s].kind = "DELETE" THEN <<>>
                         ELSE <<convertCardToTask(reqs[s].resp)>>,
                !.gone = GoneRecords(Resumed, reqs),
                !.drops = DropsEnded(Resumed, reqs)]
  /\ UNCHANGED <<settleFrame, cards>>

\* The catch block of handleTaskSubmit without its setSavingTask(false)
SavingAfterCatchKept(s) == savingTask

\* savingTask after the catch block of the handler of slot s
SavingAfterCatch(s) == IF reqs[s].kind \in {"POST", "PUT"} THEN FALSE ELSE savingTask

\* The catch block of handleStatusChange without its setTasks
RevertedNever(s) == tasks

\* The updater of setTasks in the catch block of handleStatusChange, giving
\* every task the status kept in currentTask
RevertedFromAll(store, r) ==
  IF r.kind = "PATCH" THEN MapSeq(LAMBDA task : [task EXCEPT !.status = r.prev], store)
  ELSE store

\* The updater of setTasks in the catch block of handleStatusChange, for the
\* call r on the store given; the other handlers leave the store alone.
RevertedFrom(store, r) ==
  IF r.kind = "PATCH" THEN WithStatus(store, {r.id}, r.prev) ELSE store

\* The store after the catch block of the handler of slot s.
Reverted(s) == RevertedFrom(tasks, reqs[s])

\* The call of slot s fails (carried out by the backend or not): the catch
\* block and the finally block of its handler run.
DeliverErr(s) ==
  /\ reqs[s].phase \in {"sent", "ok"}
  /\ tasks' = Reverted(s)
  /\ tagOptions' = TagOptionsAfter(tagOptions, tasks')
  /\ Settle({s}, reqs, SavingAfterCatch(s))
  /\ last' = [NoEvent EXCEPT
                !.op = CASE reqs[s].kind = "PATCH" -> "statusFailed"
                         [] reqs[s].kind = "DELETE" -> "deleteFailed"
                         [] OTHER -> "submitFailed",
                !.id = reqs[s].id, !.status = reqs[s].prev,
                !.editing = reqs[s].editing, !.closed = reqs[s].closed,
                !.gone = GoneRecords({s}, reqs),
                !.drops = DropsEnded({s}, reqs)]
  /\ UNCHANGED <<settleFrame, cards, query>>

\* The backend answers the fetch of the card list.
QueryServe ==
  /\ query.phase = "sent"
  /\ query' = [query EXCEPT !.phase = "ok", !.resp = cards]
  /\ last' = NoEvent
  /\ UNCHANGED <<storeVars, modalVars, reorderVars, dragVars, busyVars, reqs, cards,
                 nextCardId, editsLeft,
                 callsLeft>>

\* The fetched list arrives: cardsQuery.data changes and the effect replaces
\* the store; with data equal to the last one the effect may not run
\* (rerun is TRUE when it does).
QueryDeliver(rerun) ==
  /\ query.phase = "ok"
  /\ query' = [phase |-> "idle", resp |-> <<>>, data |-> <<query.resp>>]
  /\ tasks' = IF <<query.resp>> # query.data \/ rerun
              THEN MapSeq(convertCardToTask, query.resp)
              ELSE tasks
  /\ tagOptions' = TagOptionsAfter(tagOptions, tasks')
  /\ Settle(Waiters, reqs, savingTask)
  /\ last' = [NoEvent EXCEPT !.op = "loaded", !.gone = GoneRecords(Waiters, reqs),
                              !.drops = DropsEnded(Waiters, reqs)]
  /\ UNCHANGED <<settleFrame, cards>>

\* The fetch fails: the data stays, the handlers awaiting it resume.
QueryFail ==
  /\ query.phase \in {"sent", "ok"}
  /\ query' = [query EXCEPT !.phase = "idle", !.resp = <<>>]
  /\ Settle(Waiters, reqs, savingTask)
  /\ last' = [NoEvent EXCEPT !.op = "loadFailed", !.gone = GoneRecords(Waiters, reqs),
                              !.drops = DropsEnded(Waiters, reqs)]
  /\ UNCHANGED <<tasks, tagOptions, settleFrame, cards>>

\* ------------------------------------------------------------- task delete

\* The delete icon of a card (handleDeleteTask up to its await)
handleDeleteTask(taskId) ==
  /\ BoardInteractive
  /\ \E task \in RenderedTasks : task.id = taskId
  /\ deletingTaskId # taskId
  /\ CanIssue(1)
  /\ callsLeft' = callsLeft - 1
  /\ deletingTaskId' = taskId
  /\ reqs' = [reqs EXCEPT ![NthFree(1)] =
                [NoReq EXCEPT !.kind = "DELETE", !.phase = "sent", !.id = taskId]]
  /\ last' = [NoEvent EXCEPT !.op = "deleteSent", !.id = taskId]
  /\ UNCHANGED <<storeVars, modalVars, reorderVars, dragVars, savingTask, statusUpdating,
                 query, cards, nextCardId, editsLeft>>

\* --------------------------------------------------------------- task form

openCreateTaskModal ==
  /\ BoardInteractive
  /\ editingTask' = <<>>
  /\ taskModalOpen' = TRUE
  /\ last' = NoEvent
  /\ UNCHANGED <<storeVars, columnModalOpen, columnDeletionContext, reorderVars, dragVars,
                 busyVars, netVars, editsLeft>>

openEditTaskModal(task) ==
  /\ BoardInteractive
  /\ task \in RenderedTasks
  /\ deletingTaskId # task.id
  /\ editingTask' = <<task>>
  /\ taskModalOpen' = TRUE
  /\ last' = NoEvent
  /\ UNCHANGED <<storeVars, columnModalOpen, columnDeletionContext, reorderVars, dragVars,
                 busyVars, netVars, editsLeft>>

\* The submits under way are marked as belonging to a closed modal.
MarkClosed(rs) ==
  [ s \in Slots |-> IF rs[s].kind \in {"POST", "PUT"} THEN [rs[s] EXCEPT !.closed = TRUE]
                                                       ELSE rs[s] ]

closeTaskModal ==
  /\ taskModalOpen
  /\ taskModalOpen' = FALSE
  /\ editingTask' = <<>>
  /\ savingTask' = FALSE
  /\ reqs' = MarkClosed(reqs)
  /\ last' = NoEvent
  /\ UNCHANGED <<storeVars, columnModalOpen, columnDeletionContext, reorderVars, dragVars,
                 deletingTaskId, statusUpdating, query, cards, nextCardId, editsLeft, callsLeft>>

\* The submit button takes a submit (loading={savingTask} disables it).
SubmitEnabled == ~savingTask

\* The statuses the form's status Select can hold.
FormStatuses ==
  ColumnIds(columns) \cup (IF editingTask # <<>> THEN {editingTask[1].status} ELSE {})

\* The values of the task form with the title typed and the status chosen:
\* the other fields are as openCreateTaskModal or openEditTaskModal set them.
TaskFormValues(title, status) ==
  IF editingTask # <<>>
  THEN [ title |-> title, description |-> editingTask[1].description, status |-> status,
         priority |-> editingTask[1].priority, assignee |-> editingTask[1].assignee,
         tags |-> editingTask[1].tags, dueDate |-> "", company |-> editingTask[1].company,
         companyContactName |-> editingTask[1].companyContactName,
         companyContactPhone |-> editingTask[1].companyContactPhone,
         jobNumber |-> editingTask[1].jobNumber, serviceQuote |-> editingTask[1].serviceQuote ]
  ELSE [ title |-> title, description |-> <<>>, status |-> status, priority |-> "medium",
         assignee |-> <<>>, tags |-> <<>>, dueDate |-> "", company |-> <<>>,
         companyContactName |-> <<>>, companyContactPhone |-> <<>>, jobNumber |-> <<>>,
         serviceQuote |-> <<>> ]

\* handleTaskSubmit up to its await, with the form values given
handleTaskSubmit(values) ==
  /\ taskModalOpen
  /\ SubmitEnabled
  /\ Len(Trim(values.title)) > 0
  /\ values.status # <<>>
  /\ CanIssue(1)
  /\ callsLeft' = callsLeft - 1
  /\ savingTask' = TRUE
  /\ reqs' = [reqs EXCEPT ![NthFree(1)] =
                [NoReq EXCEPT !.kind = IF editingTask # <<>> THEN "PUT" ELSE "POST",
                              !.phase = "sent",
                              !.id = IF editingTask # <<>> THEN editingTask[1].id ELSE 0,
                              !.body = formValuesToPayload(values),
                              !.editing = editingTask]]
  /\ last' = [NoEvent EXCEPT !.op = "submitSent"]
  /\ UNCHANGED <<storeVars, modalVars, reorderVars, dragVars, deletingTaskId, statusUpdating,
                 query, cards, nextCardId, editsLeft>>

\* ------------------------------------------------------------ drag and drop

\* draggable of a card and its onDragStart
handleTaskDragStart(taskId) ==
  /\ BoardInteractive
  /\ ~isReordering
  /\ \E task \in RenderedTasks : task.id = taskId
  /\ deletingTaskId # taskId
  /\ taskId \notin statusUpdating
  /\ draggingTaskId' = taskId
  /\ dragPayload' = taskId
  /\ last' = NoEvent
  /\ UNCHANGED <<storeVars, modalVars, reorderVars, dragOverColumnId, busyVars, netVars,
                 editsLeft>>

\* handleColumnDragOver without its early return on draggingTaskId == null
handleColumnDragOverUnguarded(columnId) ==
  /\ dragPayload # 0
  /\ ~isReordering
  /\ columnId \in ColumnIds(RenderedColumns)
  /\ dragOverColumnId # columnId
  /\ dragOverColumnId' = columnId
  /\ last' = [NoEvent EXCEPT !.op = "dragOver", !.status = columnId]
  /\ UNCHANGED <<storeVars, modalVars, reorderVars, draggingTaskId, dragPayload, busyVars,
                 netVars, editsLeft>>

\* onDragOver of a column during a drag gesture: handleColumnDragOver, when
\* it gets past its early return and has a new column to mark
handleColumnDragOver(columnId) ==
  /\ dragPayload # 0
  /\ ~isReordering
  /\ columnId \in ColumnIds(RenderedColumns)
  /\ draggingTaskId # 0
  /\ dragOverColumnId # columnId
  /\ dragOverColumnId' = columnId
  /\ last' = [NoEvent EXCEPT !.op = "dragOver", !.status = columnId]
  /\ UNCHANGED <<storeVars, modalVars, reorderVars, draggingTaskId, dragPayload, busyVars,
                 netVars, editsLeft>>

\* onDragLeave with the pointer leaving the column's element
handleColumnDragLeave(columnId) ==
  /\ dragPayload # 0
  /\ ~isReordering
  /\ columnId \in ColumnIds(RenderedColumns)
  /\ dragOverColumnId' = IF dragOverColumnId = columnId THEN <<>> ELSE dragOverColumnId
  /\ last' = [NoEvent EXCEPT !.op = "dragLeft", !.status = columnId]
  /\ UNCHANGED <<storeVars, modalVars, reorderVars, draggingTaskId, dragPayload, busyVars,
                 netVars, editsLeft>>

\* The drag ends without a drop: onDragEnd of the card
DragEnd ==
  /\ dragPayload # 0
  /\ handleTaskDragEnd
  /\ dragPayload' = 0
  /\ last' = NoEvent
  /\ UNCHANGED <<storeVars, modalVars, reorderVars, busyVars, netVars, editsLeft>>

\* handleColumnDrop up to its await. ended tells whether the browser's
\* dragend event, which follows the drop, reaches the card's onDragEnd.
handleColumnDrop(columnId, ended) ==
  LET droppedTaskId == IF dragPayload # 0 THEN dragPayload ELSE draggingTaskId
  IN  /\ dragPayload # 0
      /\ ~isReordering
      /\ columnId \in ColumnIds(RenderedColumns)
      /\ draggingTaskId # 0
      /\ dragPayload' = 0
      /\ IF droppedTaskId = 0
         THEN /\ handleTaskDragEnd
              /\ last' = NoEvent
              /\ UNCHANGED <<reqs, callsLeft, statusUpdating, tasks, tagOptions>>
         ELSE /\ handleStatusChange(droppedTaskId, columnId, TRUE)
              /\ IF ended \/ ~StatusChangeProceeds(droppedTaskId, columnId)
                 THEN handleTaskDragEnd
                 ELSE UNCHANGED <<draggingTaskId, dragOverColumnId>>
      /\ UNCHANGED <<columns, filters, modalVars, reorderVars, savingTask, deletingTaskId,
                     query, cards, nextCardId, editsLeft>>

\* ---------------------------------------------------------- column deletion

\* The delete icon of a column (shown when !isReordering && columnIndex > 0)
handleRequestDeleteColumn(columnId) ==
  LET columnIndex == FindIndex(LAMBDA column : column.id = columnId, columns)
  IN  /\ BoardInteractive
      /\ ~isReordering
      /\ columnId \in ColumnIds(RenderedColumns)
      /\ columnIndex > 1
      /\ columnDeletionContext' =
            << [ column |-> columns[columnIndex], fallbackColumn |-> columns[columnIndex - 1] ] >>
      /\ last' = NoEvent
      /\ UNCHANGED <<storeVars, taskModalOpen, columnModalOpen, editingTask, reorderVars,
                     dragVars, busyVars, netVars, editsLeft>>

closeDeleteColumnModal ==
  /\ columnDeletionContext # <<>>
  /\ columnDeletionContext' = <<>>
  /\ last' = NoEvent
  /\ UNCHANGED <<storeVars, taskModalOpen, columnModalOpen, editingTask, reorderVars,
                 dragVars, busyVars, netVars, editsLeft>>

\* A number no handleDeleteColumn under way is known by.
FreshJob == CHOOSE j \in 1..(MaxInFlight + 1) : \A s \in Slots : reqs[s].job # j

\* The store entries handleDeleteColumn starts a status change for: those
\* with the column's status that pass the guard of handleStatusChange.
Moved(columnId, fallbackId) ==
  FilterSeq(LAMBDA task : task.status = columnId /\ StatusChangeProceeds(task.id, fallbackId),
            tasks)

\* The tail of handleDeleteColumn, after its await, without its setFilters
ColumnRemovedFilterKept(columnId) ==
  LET cols == FilterSeq(LAMBDA column : column.id # columnId, columns)
  IN  /\ columns' = cols
      /\ UNCHANGED filters
      /\ columnDeletionContext' = <<>>
      /\ pendingColumnOrder' = IF ~isReordering THEN cols ELSE pendingColumnOrder

\* The tail of handleDeleteColumn, after its await
ColumnRemoved(columnId) ==
  LET cols == FilterSeq(LAMBDA column : column.id # columnId, columns)
  IN  /\ columns' = cols
      /\ filters' = [filters EXCEPT !.column = IF @ = columnId THEN AllColumns ELSE @]
      /\ columnDeletionContext' = <<>>
      /\ pendingColumnOrder' = IF ~isReordering THEN cols ELSE pendingColumnOrder

\* The confirm button of the delete-column modal: handleDeleteColumn up to
\* its await, and its tail when there is nothing to await.
handleDeleteColumn ==
  /\ columnDeletionContext # <<>>
  /\ LET columnId == columnDeletionContext[1].column.id
         columnIndex == FindIndex(LAMBDA column : column.id = columnId, columns)
         fallbackId == columns[columnIndex - 1].id
         moved == Moved(columnId, fallbackId)
         ids == { moved[k].id : k \in 1..Len(moved) }
     IN  IF columnIndex <= 1
         THEN /\ last' = [NoEvent EXCEPT !.op = "columnKept", !.status = columnId]
              /\ UNCHANGED <<storeVars, columnDeletionContext, pendingColumnOrder, reqs,
                             callsLeft, statusUpdating>>
         ELSE IF moved = <<>>
         THEN /\ ColumnRemoved(columnId)
              /\ last' = [NoEvent EXCEPT !.op = "columnDeleted", !.status = columnId,
                            !.gone = {[col |-> columnId, fallback |-> fallbackId, ids |-> {}]}]
              /\ UNCHANGED <<tasks, tagOptions, reqs, callsLeft, statusUpdating>>
         ELSE /\ CanIssue(Len(moved))
              /\ callsLeft' = callsLeft - Len(moved)
              /\ reqs' = [ s \in Slots |->
                             IF \E k \in 1..Len(moved) : s = NthFree(k)
                             THEN LET k == CHOOSE k \in 1..Len(moved) : s = NthFree(k)
                                  IN  [ PatchReq(moved[k].id, fallbackId, FALSE, FreshJob, columnId)
                                          EXCEPT !.jobIds = ids ]
                             ELSE reqs[s] ]
              /\ statusUpdating' = statusUpdating \cup ids
              /\ tasks' = WithStatus(tasks, ids, fallbackId)
              /\ tagOptions' = TagOptionsAfter(tagOptions, tasks')
              /\ last' = [NoEvent EXCEPT !.op = "columnDeleteSent", !.status = columnId]
              /\ UNCHANGED <<columns, filters, columnDeletionContext, pendingColumnOrder>>
  /\ UNCHANGED <<taskModalOpen, columnModalOpen, editingTask, isReordering, dragVars,
                 savingTask, deletingTaskId, query, cards, nextCardId, editsLeft>>

\* ---------------------------------------------------------- column creation

\* The Add column button without its disabled prop
AddColumnEnabledAlways == TRUE

\* The Add column button: disabled={isReordering}
AddColumnEnabled == ~isReordering

\* The Add column button
openColumnModal ==
  /\ BoardInteractive
  /\ AddColumnEnabled
  /\ columnModalOpen' = TRUE
  /\ last' = NoEvent
  /\ UNCHANGED <<storeVars, taskModalOpen, editingTask, columnDeletionContext, reorderVars,
                 dragVars, busyVars, netVars, editsLeft>>

\* closeColumnModal: the state it sets
ColumnModalClosed == columnModalOpen' = FALSE

\* Cancel or close of the column modal
closeColumnModal ==
  /\ columnModalOpen
  /\ ColumnModalClosed
  /\ last' = NoEvent
  /\ UNCHANGED <<storeVars, taskModalOpen, editingTask, columnDeletionContext, reorderVars,
                 dragVars, busyVars, netVars, editsLeft>>

\* handleColumnSubmit without its collision test
SlugTakenNever(nextSlug) == FALSE

\* The collision test comparing the slug with the columns' labels
SlugTakenByLabel(nextSlug) == \E i \in 1..Len(columns) : columns[i].label = nextSlug

\* columns.some((column) => column.id === nextSlug)
SlugTaken(nextSlug) == nextSlug \in ColumnIds(columns)

\* handleColumnSubmit with the label typed and the color left at its default;
\* the effect on [columns, isReordering] follows the new registry.
handleColumnSubmit(values) ==
  /\ columnModalOpen
  /\ Len(values.label) > 0
  /\ \E nextSlug \in slugify(values.label) :
       IF SlugTaken(nextSlug)
       THEN /\ last' = [NoEvent EXCEPT !.op = "columnRejected", !.status = nextSlug,
                                        !.label = values.label]
            /\ UNCHANGED <<columns, columnModalOpen, pendingColumnOrder, editsLeft>>
       ELSE LET cols == Append(columns, [id |-> nextSlug, label |-> values.label,
                                         color |-> values.color])
            IN  /\ editsLeft > 0
                /\ editsLeft' = editsLeft - 1
                /\ columns' = cols
                /\ ColumnModalClosed
                /\ pendingColumnOrder' = IF ~isReordering THEN cols ELSE pendingColumnOrder
                /\ last' = [NoEvent EXCEPT !.op = "columnAdded", !.status = nextSlug,
                                            !.label = values.label]
  /\ UNCHANGED <<tasks, tagOptions, filters, taskModalOpen, editingTask, columnDeletionContext,
                 isReordering, dragVars, busyVars, netVars>>

\* ------------------------------------------------------------ column reorder

\* isColumnOrderDirty
isColumnOrderDirty ==
  IF Len(pendingColumnOrder) # Len(columns) THEN TRUE
  ELSE \E index \in 1..Len(pendingColumnOrder) :
         pendingColumnOrder[index].id # columns[index].id

\* The Edit column order button (disabled={columns.length < 2})
enterReorderMode ==
  /\ BoardInteractive
  /\ ~isReordering
  /\ Len(columns) >= 2
  /\ pendingColumnOrder' = columns
  /\ isReordering' = TRUE
  /\ last' = [NoEvent EXCEPT !.op = "reorderEntered"]
  /\ UNCHANGED <<storeVars, modalVars, dragVars, busyVars, netVars, editsLeft>>

\* The Cancel button of reorder mode
cancelReorderMode ==
  /\ BoardInteractive
  /\ isReordering
  /\ pendingColumnOrder' = columns
  /\ isReordering' = FALSE
  /\ last' = [NoEvent EXCEPT !.op = "reorderCancelled"]
  /\ UNCHANGED <<storeVars, modalVars, dragVars, busyVars, netVars, editsLeft>>

\* saveColumnOrder committing the registry it started from
SavedOrderStale == columns

\* setColumns([...pendingColumnOrder])
SavedOrder == pendingColumnOrder

\* The Save order button (disabled={!isColumnOrderDirty})
saveColumnOrder ==
  /\ BoardInteractive
  /\ isReordering
  /\ isColumnOrderDirty
  /\ columns' = SavedOrder
  /\ isReordering' = FALSE
  /\ pendingColumnOrder' = pendingColumnOrder
  /\ last' = [NoEvent EXCEPT !.op = "reorderSaved"]
  /\ UNCHANGED <<tasks, tagOptions, filters, modalVars, dragVars, busyVars, netVars, editsLeft>>

\* The draft after moveColumn(index, direction); index counts from 1 here
MovedOrder(current, index, direction) ==
  LET targetIndex == index + direction
  IN  IF targetIndex < 1 \/ targetIndex > Len(current) THEN current
      ELSE [current EXCEPT ![targetIndex] = current[index], ![index] = current[targetIndex]]

\* The Move column left / right icons of the column at index of visibleColumns
\* (left disabled at the first, right at the last)
moveColumn(index, direction) ==
  /\ BoardInteractive
  /\ isReordering
  /\ index \in 1..Len(RenderedColumns)
  /\ direction = -1 => index # 1
  /\ direction = 1 => index # Len(RenderedColumns)
  /\ editsLeft > 0
  /\ editsLeft' = editsLeft - 1
  /\ pendingColumnOrder' = MovedOrder(pendingColumnOrder, index, direction)
  /\ last' = [NoEvent EXCEPT !.op = "reorderMoved"]
  /\ UNCHANGED <<storeVars, modalVars, isReordering, dragVars, busyVars, netVars>>

\* ----------------------------------------------------------------- filters

\* What the filter controls leave alone.
filterFrame ==
  <<columns, tasks, tagOptions, modalVars, reorderVars, dragVars, busyVars, netVars, editsLeft>>

\* setFilters((current) => ({ ...current, ... })) of a filter control
FiltersSet(next) ==
  /\ BoardInteractive
  /\ filters' = next
  /\ last' = [NoEvent EXCEPT !.op = "filtered"]
  /\ UNCHANGED filterFrame

\* The search box (onChange)
SearchChanged(value) == FiltersSet([filters EXCEPT !.search = value])

\* columnFilterOptions, the values
columnFilterOptions == <<AllColumns>> \o MapSeq(LAMBDA column : column.id, columns)

\* The column Select of the filters (onChange)
ColumnFilterChanged(value) ==
  /\ value \in Range(columnFilterOptions)
  /\ FiltersSet([filters EXCEPT !.column = value])

\* priorityFilterOptions, the values
priorityFilterOptions == <<"all", "low", "medium", "high">>

\* The priority Select of the filters (onChange)
PriorityFilterChanged(value) ==
  /\ value \in Range(priorityFilterOptions)
  /\ FiltersSet([filters EXCEPT !.priority = value])

\* The tags MultiSelect of the filters (onChange): an option is picked or a
\* picked one is removed
TagFilterChanged(tag) ==
  /\ tag \in Range(tagOptions)
  /\ FiltersSet([filters EXCEPT !.tags =
                   IF tag \in Range(@) THEN FilterSeq(LAMBDA picked : picked # tag, @)
                   ELSE Append(@, tag)])

\* assigneeFilterOptions, the values
assigneeFilterOptions ==
  <<All>> \o Unique(FilterSeq(LAMBDA assignee : assignee # <<>>,
                              MapSeq(LAMBDA task : task.assignee, tasks)))

\* The employee Select of the filters (onChange)
AssigneeFilterChanged(value) ==
  /\ Len(assigneeFilterOptions) > 1
  /\ value \in Range(assigneeFilterOptions)
  /\ FiltersSet([filters EXCEPT !.assignee = value])

\* jobFilterOptions, the values
jobFilterOptions ==
  <<All>> \o Unique(FilterSeq(LAMBDA job : job # <<>>,
                              MapSeq(LAMBDA task : task.jobNumber, tasks)))

\* The job number Select of the filters (onChange)
JobFilterChanged(value) ==
  /\ Len(jobFilterOptions) > 1
  /\ value \in Range(jobFilterOptions)
  /\ FiltersSet([filters EXCEPT !.jobNumber = value])

\* serviceQuoteFilterOptions, the values
serviceQuoteFilterOptions ==
  <<All>> \o Unique(FilterSeq(LAMBDA quote : quote # <<>>,
                              MapSeq(LAMBDA task : task.serviceQuote, tasks)))

\* The service quote Select of the filters (onChange)
ServiceQuoteFilterChanged(value) ==
  /\ Len(serviceQuoteFilterOptions) > 1
  /\ value \in Range(serviceQuoteFilterOptions)
  /\ FiltersSet([filters EXCEPT !.serviceQuote = value])

\* filtersActive
filtersActive ==
  \/ Len(Trim(filters.search)) > 0
  \/ filters.column # AllColumns
  \/ filters.priority # "all"
  \/ Len(filters.tags) > 0
  \/ filters.assignee # All
  \/ filters.jobNumber # All
  \/ filters.serviceQuote # All

\* The Reset filters button: resetFilters
resetFilters ==
  /\ BoardInteractive
  /\ filtersActive
  /\ filters' = defaultFilters
  /\ last' = [NoEvent EXCEPT !.op = "filtersReset"]
  /\ UNCHANGED filterFrame

\* -------------------------------------------------------------------- tags

\* The Add tag button of the task form: handleAddTagOption with newTagName
\* as typed
handleAddTagOption(newTagName) ==
  LET normalized == Trim(newTagName)
  IN  /\ taskModalOpen
      /\ Len(Trim(newTagName)) # 0
      /\ tagOptions' = IF normalized \in Range(tagOptions) THEN tagOptions
                       ELSE Append(tagOptions, normalized)
      /\ last' = [NoEvent EXCEPT !.op = "tagAdded", !.label = normalized]
      /\ UNCHANGED <<columns, tasks, filters, modalVars, reorderVars, dragVars, busyVars,
                     netVars, editsLeft>>

\* --------------------------------------------------------- specifications

\* The backend and the network take a step.
Fetch ==
  \/ QueryServe
  \/ \E rerun \in BOOLEAN : QueryDeliver(rerun)
  \/ QueryFail

Network ==
  \/ \E s \in Slots : ServeOk(s) \/ DeliverOk(s) \/ DeliverErr(s)
  \/ Fetch

\* The operator uses the cards' controls and the task form.
TaskActions ==
  \/ \E t \in TaskIds, st \in ColumnIds(columns) : SelectStatus(t, st)
  \/ \E t \in TaskIds : handleDeleteTask(t)
  \/ openCreateTaskModal
  \/ \E task \in RenderedTasks : openEditTaskModal(task)
  \/ closeTaskModal
  \/ \E title \in Titles, st \in FormStatuses :
       handleTaskSubmit(TaskFormValues(title, st))

\* The operator deletes columns.
ColumnDeleteActions ==
  \/ \E c \in ColumnIds(columns) : handleRequestDeleteColumn(c)
  \/ closeDeleteColumnModal
  \/ handleDeleteColumn

\* The operator adds columns.
ColumnCreateActions ==
  \/ openColumnModal
  \/ closeColumnModal
  \/ \E label \in Labels : handleColumnSubmit([label |-> label, color |-> "gray"])

\* The operator reorders columns.
ReorderActions ==
  \/ enterReorderMode
  \/ cancelReorderMode
  \/ saveColumnOrder
  \/ \E index \in 1..Len(pendingColumnOrder), direction \in {-1, 1} : moveColumn(index, direction)

\* The operator drags cards.
DragActions ==
  \/ \E t \in TaskIds : handleTaskDragStart(t)
  \/ \E c \in ColumnIds(columns) : handleColumnDragOver(c) \/ handleColumnDragLeave(c)
  \/ DragEnd
  \/ \E c \in ColumnIds(columns), ended \in BOOLEAN : handleColumnDrop(c, ended)

Next == TaskActions \/ ColumnDeleteActions \/ Network

Spec == Init /\ [][Next]_vars

\* Runs that only delete tasks, from a backend with two cards.
InitDelete == Mounted(<<InitialCard(1, done), InitialCard(2, backlog)>>, MaxDeleteCalls)

NextDelete == (\E t \in TaskIds : handleDeleteTask(t)) \/ Network

SpecDelete == InitDelete /\ [][NextDelete]_vars

\* Runs that change the status of tasks, through each of the three ways to
\* handleStatusChange: the status selector, a drop, a column deletion.
NextStatus ==
  \/ \E t \in TaskIds, st \in ColumnIds(columns) : SelectStatus(t, st)
  \/ DragActions
  \/ ColumnDeleteActions
  \/ Network

SpecStatus == Init /\ [][NextStatus]_vars

\* Runs that drag and drop cards while cards are deleted, from a backend
\* with two cards.
InitDnD == Mounted(<<InitialCard(1, done), InitialCard(2, backlog)>>, MaxCalls)

NextDnD ==
  \/ \E t \in TaskIds, st \in ColumnIds(columns) : SelectStatus(t, st)
  \/ DragActions
  \/ \E t \in TaskIds : handleDeleteTask(t)
  \/ Network

SpecDnD == InitDnD /\ [][NextDnD]_vars

\* Runs that use the task form.
NextForm ==
  \/ openCreateTaskModal
  \/ \E task \in RenderedTasks : openEditTaskModal(task)
  \/ closeTaskModal
  \/ \E title \in Titles, st \in FormStatuses :
       handleTaskSubmit(TaskFormValues(title, st))
  \/ Network

SpecForm == Init /\ [][NextForm]_vars

\* Runs that start with no card at the backend: every card is one the
\* component created.
InitFresh == Mounted(<<>>, MaxCalls)

NextFresh == NextForm \/ ColumnDeleteActions

SpecFresh == InitFresh /\ [][NextFresh]_vars

\* Runs that reorder and delete columns, from a backend whose card is in
\* the second column.
InitReorder == Mounted(<<InitialCard(1, inProgress)>>, MaxCalls)

NextReorder == ReorderActions \/ ColumnDeleteActions \/ Network

SpecReorder == InitReorder /\ [][NextReorder]_vars

\* Runs that add, reorder and delete columns.
NextColumns == ColumnCreateActions \/ ReorderActions \/ ColumnDeleteActions \/ Network

SpecColumns == InitReorder /\ [][NextColumns]_vars

\* Runs that mix reorder mode with column creation and drag and drop.
NextLocked == ReorderActions \/ ColumnCreateActions \/ DragActions \/ Network

SpecLocked == Init /\ [][NextLocked]_vars

\* Runs that use the filter controls, from a backend holding any list of
\* up to MaxListed of the sample cards.
TagVip == <<"V","i","p">>
TagOn == <<"O","n">>

SampleCards ==
  { [ NoCard EXCEPT !.id = 1, !.title = <<"A","l">>, !.description = Null, !.status = backlog,
        !.priority = "high", !.assignee = <<"B","o">>, !.tags = <<TagVip>>,
        !.job_number = <<"J","1">>, !.service_quote = <<"Q","7">> ],
    [ NoCard EXCEPT !.id = 2, !.title = <<"t","1">>, !.description = <<"a","l">>, !.status = done,
        !.priority = "low", !.assignee = Null, !.tags = <<TagVip, TagOn>>,
        !.job_number = Null, !.service_quote = Null ],
    [ NoCard EXCEPT !.id = 3, !.title = <<"x">>, !.description = <<>>, !.status = backlog,
        !.priority = "high", !.assignee = <<"B","o">>, !.tags = Null,
        !.job_number = <<"J","1">>, !.service_quote = <<>> ] }

SampleLists ==
  { list \in UNION { [1..n -> SampleCards] : n \in 0..MaxListed } :
      \A i, j \in 1..Len(list) : i # j => list[i] # list[j] }

SearchTexts == { <<>>, <<" ">>, <<"A","L">>, <<" ","b","o"," ">>, <<"p"," ","o">> }

InitFilter == \E list \in SampleLists : Mounted(list, 0)

FilterActions ==
  \/ \E value \in SearchTexts : SearchChanged(value)
  \/ \E value \in Range(columnFilterOptions) : ColumnFilterChanged(value)
  \/ \E value \in Range(priorityFilterOptions) : PriorityFilterChanged(value)
  \/ \E tag \in {TagVip, TagOn} : TagFilterChanged(tag)
  \/ \E value \in Range(assigneeFilterOptions) : AssigneeFilterChanged(value)
  \/ \E value \in Range(jobFilterOptions) : JobFilterChanged(value)
  \/ \E value \in Range(serviceQuoteFilterOptions) : ServiceQuoteFilterChanged(value)
  \/ resetFilters

NextFilter == FilterActions \/ Fetch

SpecFilter == InitFilter /\ [][NextFilter]_vars

\* Runs that grow the tag vocabulary: cards with tags are loaded, tasks are
\* deleted, and tags are added by hand in the task form.
TaggedCards ==
  << [ InitialCard(1, done) EXCEPT !.tags = <<TagVip, <<>>, TagOn>> ],
     [ InitialCard(2, backlog) EXCEPT !.tags = <<TagOn, DEFAULT_TAG_OPTIONS[4]>> ] >>

NewTagNames == { <<" ">>, <<" ","Z"," ">>, TagOn, DEFAULT_TAG_OPTIONS[1] }

InitTags == Mounted(TaggedCards, MaxCalls)

NextTags ==
  \/ openCreateTaskModal
  \/ closeTaskModal
  \/ \E newTagName \in NewTagNames : handleAddTagOption(newTagName)
  \/ \E t \in TaskIds : handleDeleteTask(t)
  \/ Network

SpecTags == InitTags /\ [][NextTags]_vars

\* Runs that change the status of two tasks through their status Selects.
NextPair ==
  \/ \E t \in TaskIds, st \in ColumnIds(columns) : SelectStatus(t, st)
  \/ Network

SpecPair == InitDnD /\ [][NextPair]_vars

\* Runs that set the column filter while columns are deleted and reordered.
NextColumnFilter ==
  \/ \E value \in Range(columnFilterOptions) : ColumnFilterChanged(value)
  \/ ColumnDeleteActions
  \/ ReorderActions
  \/ Network

SpecColumnFilter == InitReorder /\ [][NextColumnFilter]_vars

\* Runs in which a task is deleted while a status change or an update of it
\* is under way.
NextLate ==
  \/ \E t \in TaskIds, st \in ColumnIds(columns) : SelectStatus(t, st)
  \/ \E t \in TaskIds : handleDeleteTask(t)
  \/ \E task \in RenderedTasks : openEditTaskModal(task)
  \/ closeTaskModal
  \/ \E title \in Titles, st \in FormStatuses : handleTaskSubmit(TaskFormValues(title, st))
  \/ Network

SpecLate == Init /\ [][NextLate]_vars

\* Runs that add columns, one of them labelled 'All', and set the column
\* filter.
SentinelLabels == { <<"A","l","l">>, <<"Q","A">> }

NextSentinel ==
  \/ openColumnModal
  \/ closeColumnModal
  \/ \E label \in SentinelLabels : handleColumnSubmit([label |-> label, color |-> "gray"])
  \/ \E value \in Range(columnFilterOptions) : ColumnFilterChanged(value)
  \/ Fetch

SpecSentinel == InitDnD /\ [][NextSentinel]_vars

\* Every backend call is answered or fails in the end.
Resolves ==
  /\ \A s \in Slots : WF_vars(ServeOk(s) \/ DeliverOk(s) \/ DeliverErr(s))
  /\ WF_vars(QueryServe \/ (\E rerun \in BOOLEAN : QueryDeliver(rerun)) \/ QueryFail)

NextLive == TaskActions \/ Network

SpecLive == Init /\ [][NextLive]_vars /\ Resolves

\* ------------------------------------------------------------------ claims

\* A backend call of kind k for task id t is in flight in slot s.
InFlight(s, k, t) == reqs[s].kind = k /\ reqs[s].phase \in {"sent", "ok"} /\ reqs[s].id = t

\* No backend call is under way and no handler awaits one.
Quiet == (\A s \in Slots : reqs[s].kind = "none") /\ query.phase = "idle"

\* C1: when the PATCH of a status change has failed and its handler has
\* ended, every store entry of the task has the status the task had when the
\* handler was called, and the task id is not in statusUpdating.
StatusRollback ==
  last.op = "statusFailed" =>
    /\ \A i \in 1..Len(tasks) : tasks[i].id = last.id => tasks[i].status = last.status
    /\ last.id \notin statusUpdating

\* C1 witness: a status change has failed on a task that is in the store.
StatusRollbackWitness ==
  /\ last.op = "statusFailed"
  /\ \E i \in 1..Len(tasks) : tasks[i].id = last.id

\* C2: when handleDeleteColumn has ended, the column is out of the registry
\* and every task it found in the column has the preceding column's id as status.
ColumnDeleteReassigns ==
  \A g \in last.gone :
    /\ g.col \notin ColumnIds(columns)
    /\ \A i \in 1..Len(tasks) : tasks[i].id \in g.ids => tasks[i].status = g.fallback

\* C3: no two entries of the card store have the same id.
TaskIdsUnique ==
  \A i, j \in 1..Len(tasks) : tasks[i].id = tasks[j].id => i = j

\* C4: every task of the store has the id of a column of the registry as status.
StatusReferencesColumn ==
  \A i \in 1..Len(tasks) : tasks[i].status \in ColumnIds(columns)

\* C5: never two DELETE calls for the same task id in flight.
SingleDeleteInFlight ==
  \A s1, s2 \in Slots, t \in TaskIds :
    InFlight(s1, "DELETE", t) /\ InFlight(s2, "DELETE", t) => s1 = s2

\* C6: never two PATCH calls for the same task id in flight.
SinglePatchInFlight ==
  \A s1, s2 \in Slots, t \in TaskIds :
    InFlight(s1, "PATCH", t) /\ InFlight(s2, "PATCH", t) => s1 = s2

\* With no backend call under way the three busy markers are clear.
BusyClearWhenQuiet ==
  Quiet => statusUpdating = {} /\ deletingTaskId = 0 /\ ~savingTask

\* C7: provided every backend call is answered or fails in the end, a task id
\* in statusUpdating leaves it, deletingTaskId returns to null and savingTask
\* to false; and with no backend call under way the three are clear.
NoBusyFlagStuck ==
  /\ []BusyClearWhenQuiet
  /\ \A t \in TaskIds : (t \in statusUpdating) ~> (t \notin statusUpdating)
  /\ (deletingTaskId # 0) ~> (deletingTaskId = 0)
  /\ savingTask ~> ~savingTask

\* C7 witness: all backend calls have ended after a status change,
\* a delete or a submit failed.
NoBusyFlagStuckWitness ==
  Quiet /\ last.op \in {"statusFailed", "deleteFailed", "submitFailed"}

\* handleStatusChange(t, st) is called where it has nothing to do: the task
\* has the status st already, or is not in the store.
NothingToChange(t, st) ==
  \/ \A i \in 1..Len(tasks) : tasks[i].id # t
  \/ \E i \in 1..Len(tasks) :
       /\ tasks[i].id = t
       /\ tasks[i].status = st
       /\ \A j \in 1..(i - 1) : tasks[j].id # t

\* C8: a call of handleStatusChange for a task that has the status already,
\* or is not in the store, sends no backend call, leaves the card store as it
\* is and adds nothing to statusUpdating.
StatusNoop ==
  [][ (last'.op \in {"statusSent", "statusNoop"} /\ NothingToChange(last'.id, last'.status))
        => (tasks' = tasks /\ reqs' = reqs /\ statusUpdating' = statusUpdating) ]_vars

\* C8 witness: a card has been dropped on a column after it left the store.
StatusNoopWitness ==
  /\ last.op = "statusNoop"
  /\ \A i \in 1..Len(tasks) : tasks[i].id # last.id

SingleSubmitInFlight ==
  Cardinality({ s \in Slots : reqs[s].kind \in {"POST", "PUT"} /\ reqs[s].phase \in {"sent", "ok"} }) <= 1

\* The entries of a store whose id is not t, in order.
Others(store, t) == FilterSeq(LAMBDA task : task.id # t, store)

\* C11: when the answer of a create arrives the store grows by one entry,
\* the task made of the response, at the end; when the answer of an update
\* arrives the store keeps its length, every entry with the returned id is
\* the task made of the response and every other entry is as it was.
SaveReconciles ==
  [][ /\ last'.op = "created" => tasks' = Append(tasks, last'.task[1])
      /\ last'.op = "updated"
        => /\ Len(tasks') = Len(tasks)
           /\ \A i \in 1..Len(tasks) :
                 tasks'[i] = IF tasks[i].id = last'.task[1].id THEN last'.task[1] ELSE tasks[i] ]_vars

\* C11 witness: an update has replaced an entry of a store that holds
\* another task too.
SaveReconcilesWitness ==
  /\ last.op = "updated"
  /\ \E i, j \in 1..Len(tasks) : tasks[i] = last.task[1] /\ tasks[j].id # last.task[1].id

\* C12: when a DELETE fails the store stays as it is; when it succeeds the
\* entries with the task's id leave the store and all others stay, in order.
DeleteOutcome ==
  [][ /\ last'.op = "deleteFailed" => tasks' = tasks
      /\ last'.op = "deleted" => tasks' = Others(tasks, last'.id) ]_vars

\* C12 witness: a DELETE has succeeded and another task is left in the store.
DeleteOutcomeWitness ==
  /\ last.op = "deleted"
  /\ tasks # <<>>
  /\ \A i \in 1..Len(tasks) : tasks[i].id # last.id

\* C13: entering reorder mode, a move and a cancel leave the committed
\* order as it is, a cancel sets the draft back to the committed order, and
\* a save makes the committed order the draft.
ReorderDraftIsolated ==
  [][ /\ last'.op \in {"reorderEntered", "reorderMoved", "reorderCancelled"} => columns' = columns
      /\ last'.op = "reorderCancelled" => pendingColumnOrder' = columns'
      /\ last'.op = "reorderSaved" => columns' = pendingColumnOrder ]_vars

\* C13 witness: the operator has cancelled after moving a column.
ReorderDraftIsolatedWitness ==
  /\ last.op = "reorderCancelled"
  /\ editsLeft < MaxColumnEdits
  /\ columns = defaultColumns

\* C14: a step taken in a state with isReordering true adds no column to
\* the registry, starts no drag, sets no hover target and sends no status
\* change for a drop.
ReorderLocksBoard ==
  [][ isReordering =>
        /\ last'.op # "columnAdded"
        /\ Len(columns') <= Len(columns) \/ last'.op = "reorderSaved"
        /\ draggingTaskId' \in {0, draggingTaskId}
        /\ dragOverColumnId' \in {<<>>, dragOverColumnId}
        /\ \A s \in Slots : reqs'[s].drop => reqs[s].drop ]_vars

\* C14 witness: reorder mode is on while the status change of a drop is
\* still under way and the dragged card still marked.
ReorderLocksBoardWitness ==
  /\ isReordering
  /\ draggingTaskId # 0
  /\ \E s \in Slots : reqs[s].drop

\* C15: a submit of the column form with a label whose slug is the id of a
\* column of the registry is rejected with the field error, and leaves the
\* registry as it is and the column modal open.
SlugCollisionRejected ==
  [][ ( /\ last'.op \in {"columnAdded", "columnRejected"}
        /\ \E slug \in slugify(last'.label) : slug \in ColumnIds(columns) )
        => /\ last'.op = "columnRejected"
           /\ columns' = columns
           /\ pendingColumnOrder' = pendingColumnOrder
           /\ columnModalOpen' ]_vars

\* C15 witness: the label "Done" has been rejected while column done exists.
SlugCollisionRejectedWitness ==
  /\ last.op = "columnRejected"
  /\ last.label = <<"D","o","n","e">>
  /\ done \in ColumnIds(columns)
  /\ columnModalOpen

\* C16: no two columns of the committed registry have the same id.
ColumnIdsUnique ==
  \A i, j \in 1..Len(columns) : columns[i].id = columns[j].id => i = j

\* C16 witness: a column deletion has ended while reorder mode was on, so
\* that the draft holds a column the registry has lost.
ColumnIdsUniqueWitness ==
  /\ isReordering
  /\ last.gone # {}
  /\ Len(pendingColumnOrder) > Len(columns)

\* C17: a column that leaves the registry is not the first of the registry
\* at that moment, and a deletion confirmed for the first column changes
\* neither the registry nor the store nor the calls nor the confirmation
\* context.
FirstColumnKept ==
  [][ /\ \A g \in last'.gone : g.col \in ColumnIds(columns) => columns[1].id # g.col
      /\ last'.op = "columnKept"
           => /\ columns' = columns
              /\ tasks' = tasks
              /\ reqs' = reqs
              /\ columnDeletionContext' = columnDeletionContext ]_vars

\* A task meets the criteria: every predicate that is not at its default
\* holds of it.
Satisfies(task, criteria) ==
  LET text == Join(<< task.title, task.description, task.assignee, Join(task.tags, <<" ">>),
                      task.company, task.companyContactName, task.companyContactPhone,
                      task.jobNumber, task.serviceQuote >>, <<" ">>)
      needle == Trim(criteria.search)
  IN  /\ criteria.column # AllColumns => task.status = criteria.column
      /\ criteria.priority # "all" => task.priority = criteria.priority
      /\ criteria.assignee # All => task.assignee = criteria.assignee
      /\ criteria.jobNumber # All => task.jobNumber = criteria.jobNumber
      /\ criteria.serviceQuote # All => task.serviceQuote = criteria.serviceQuote
      /\ Range(criteria.tags) \subseteq Range(task.tags)
      /\ needle # <<>> =>
            \E at \in 0..(Len(text) - Len(needle)) :
              \A k \in 1..Len(needle) : ToLowerChar(text[at + k]) = ToLowerChar(needle[k])

RECURSIVE IsSubSequence(_, _)
\* a is b with some elements left out
IsSubSequence(a, b) ==
  IF a = <<>> THEN TRUE
  ELSE IF b = <<>> THEN FALSE
  ELSE IF Head(a) = Head(b) THEN IsSubSequence(Tail(a), Tail(b))
  ELSE IsSubSequence(a, Tail(b))

\* The criteria with one predicate set back to its default.
RelaxedOnce(criteria) ==
  { [criteria EXCEPT !.search = <<>>], [criteria EXCEPT !.column = AllColumns],
    [criteria EXCEPT !.priority = "all"], [criteria EXCEPT !.tags = <<>>],
    [criteria EXCEPT !.assignee = All], [criteria EXCEPT !.jobNumber = All],
    [criteria EXCEPT !.serviceQuote = All] }

\* C18: filteredTasks is a sub-sequence of the store that holds exactly the
\* tasks meeting every predicate of the criteria that is not at its default
\* (exact match for column, priority, assignee, job number and service quote,
\* every selected tag for tags, the trimmed search text as a case-insensitive
\* substring of the joined fields), and setting any one predicate back to its
\* default only keeps or adds tasks.
FilterEngineCorrect ==
  /\ IsSubSequence(filteredTasks, tasks)
  /\ \A i \in 1..Len(tasks) :
        tasks[i] \in Range(filteredTasks) <=> Satisfies(tasks[i], filters)
  /\ \A relaxed \in RelaxedOnce(filters) :
        IsSubSequence(filteredTasks, FilterEngine(tasks, relaxed))

\* A task tagged Vip alone is left out by the tag filter {Vip, On} while a
\* task tagged with both is kept.
FilterEngineWitness ==
  /\ last.op = "filtered"
  /\ Range(filters.tags) = {TagVip, TagOn}
  /\ \E task \in Range(tasks) : task.tags = <<TagVip>> /\ task \notin Range(filteredTasks)
  /\ filteredTasks # <<>>

\* C19: tagOptions always holds the default tags and every non-empty tag of
\* the tasks in the store, and every step leaves the entries it had in place
\* and in order, new ones coming after them.
TagVocabularyMonotone ==
  /\ [](/\ Range(DEFAULT_TAG_OPTIONS) \subseteq Range(tagOptions)
        /\ \A i \in 1..Len(tasks) :
              (Range(tasks[i].tags) \ {<<>>}) \subseteq Range(tagOptions))
  /\ [][ /\ Len(tagOptions') >= Len(tagOptions)
         /\ SubSeq(tagOptions', 1, Len(tagOptions)) = tagOptions ]_vars

\* A tag typed by hand stands before a tag that a later load brought, and
\* the vocabulary still holds a tag whose last task has been deleted.
TagVocabularyWitness ==
  /\ last.op = "deleted"
  /\ \E i, j \in 1..Len(tagOptions) :
        /\ i < j
        /\ tagOptions[i] = <<"Z">>
        /\ tagOptions[j] = TagVip
  /\ \A k \in 1..Len(tasks) : TagVip \notin Range(tasks[k].tags)

\* The answers slot s may still get: it can fail at any time, and succeed
\* once the backend has answered.
Outcomes(s) == {"fail"} \cup (IF reqs[s].phase = "ok" THEN {"ok"} ELSE {})

\* The store after slot s got the answer given.
Answered(store, s, outcome) ==
  IF outcome = "ok" THEN ReconciledFrom(store, reqs[s]) ELSE RevertedFrom(store, reqs[s])

\* Two status changes of different tasks are under way in slots a and b.
PairInFlight(a, b) ==
  /\ a # b
  /\ reqs[a].kind = "PATCH" /\ reqs[a].phase \in {"sent", "ok"}
  /\ reqs[b].kind = "PATCH" /\ reqs[b].phase \in {"sent", "ok"}
  /\ reqs[a].id # reqs[b].id

\* C20: while status changes of two different tasks are under way, the
\* answer of either, a success or a failure, changes no record but that of
\* its own task, and the store after both answers is the same whichever
\* arrives first.
StatusChangesIndependent ==
  /\ [][ \A a, b \in Slots :
           (PairInFlight(a, b) /\ last'.op \in {"statusSaved", "statusFailed"}
              /\ last'.id = reqs[a].id)
           => Others(tasks', reqs[a].id) = Others(tasks, reqs[a].id) ]_vars
  /\ [](\A a, b \in Slots :
          PairInFlight(a, b) =>
            \A oa \in Outcomes(a), ob \in Outcomes(b) :
              Answered(Answered(tasks, a, oa), b, ob) = Answered(Answered(tasks, b, ob), a, oa))

\* The status change issued second is answered while the one issued first,
\* of another task, still awaits its answer.
StatusChangesIndependentWitness ==
  /\ last.op \in {"statusSaved", "statusFailed"}
  /\ \E a \in Slots :
        /\ reqs[a].kind = "PATCH"
        /\ reqs[a].phase \in {"sent", "ok"}
        /\ reqs[a].id # last.id
        /\ \E i \in 1..Len(tasks) : tasks[i].id = last.id

\* C21: when a fetched card list arrives the store becomes the converted
\* list, whatever it held before; when a fetch fails the store is left as it
\* was, which is empty when the first fetch fails with nothing created
\* meanwhile.
LoadReplacesStore ==
  [][ /\ last'.op = "loaded" => tasks' = MapSeq(convertCardToTask, query.resp)
      /\ last'.op = "loadFailed" => tasks' = tasks ]_vars

\* C22: a drop hands the task id of the drop payload and the target column
\* to handleStatusChange, and when that status change has ended, as a
\* success, as a failure or with nothing to change, draggingTaskId and
\* dragOverColumnId are both null.
DropEndsDrag ==
  [][ /\ (dragPayload # 0 /\ last'.op \in {"statusSent", "statusNoop"})
          => last'.id = dragPayload
      /\ (dragPayload # 0 /\ last'.op = "statusNoop")
          => (draggingTaskId' = 0 /\ dragOverColumnId' = <<>>)
      /\ (\E s \in Slots : reqs[s].drop /\ reqs'[s].kind = "none")
          => (draggingTaskId' = 0 /\ dragOverColumnId' = <<>>) ]_vars

\* The status change of a dropped task has failed and its handler has run
\* to its end.
DropEndsDragWitness ==
  /\ last.op = "statusFailed"
  /\ last.id \in last.drops
  /\ draggingTaskId = 0
  /\ dragOverColumnId = <<>>

\* C23: a column is the hover target only while a task is being dragged:
\* drag-over marks its column only with draggingTaskId set, so
\* dragOverColumnId is null whenever draggingTaskId is, and drag-leave of a
\* column clears the marker when it is on that column and keeps it otherwise.
HoverOnlyWhileDragging ==
  /\ [](dragOverColumnId # <<>> => draggingTaskId # 0)
  /\ [][ /\ last'.op = "dragOver"
             => (draggingTaskId # 0 /\ dragOverColumnId' = last'.status)
         /\ last'.op = "dragLeft"
             => dragOverColumnId' =
                  IF dragOverColumnId = last'.status THEN <<>> ELSE dragOverColumnId ]_vars

\* The pointer has left a column while another column is the hover target
\* of the drag under way.
HoverOnlyWhileDraggingWitness ==
  /\ last.op = "dragLeft"
  /\ dragOverColumnId # <<>>
  /\ dragOverColumnId # last.status
  /\ draggingTaskId # 0

\* C24: the column filter is 'all' or the id of a column of the registry;
\* the end of a column's deletion sets a filter that was on that column to
\* 'all' and leaves every other filter value as it was.
ColumnFilterPointsAtColumn ==
  /\ [](filters.column = AllColumns \/ filters.column \in ColumnIds(columns))
  /\ [][ last'.gone # {} =>
           filters' = [filters EXCEPT !.column =
                         IF @ \in { g.col : g \in last'.gone } THEN AllColumns ELSE @] ]_vars

\* A column's deletion has ended, after its task was reassigned, while the
\* column filter is on another column.
ColumnFilterPointsAtColumnWitness ==
  /\ \E g \in last.gone : g.ids # {}
  /\ filters.column # AllColumns
  /\ filters.column \in ColumnIds(columns)

\* C25: the committed column registry holds at least one column, whatever
\* the interleaving of column creation, column deletions and reorder mode.
RegistryNeverEmpty == Len(columns) >= 1

\* C26: in reorder mode the draft holds exactly the columns of the committed
\* registry, each once, so that saving it neither removes a column nor
\* brings back a deleted one.
DraftIsPermutation ==
  isReordering =>
    /\ Len(pendingColumnOrder) = Len(columns)
    /\ Range(pendingColumnOrder) = Range(columns)

\* C27: while the status change of a dropped task is under way and another
\* task is being dragged, a step that is not the drop or the drag-end of
\* that drag keeps draggingTaskId, and keeps the hover target unless the
\* pointer moves to or leaves a column.
LaterDragUndisturbed ==
  [][ (/\ dragPayload # 0
       /\ draggingTaskId = dragPayload
       /\ \E s \in Slots : reqs[s].drop /\ reqs[s].id # dragPayload
       /\ dragPayload' = dragPayload)
      => /\ draggingTaskId' = draggingTaskId
         /\ last'.op \notin {"dragOver", "dragLeft"} => dragOverColumnId' = dragOverColumnId ]_vars

\* The ids of the entries of a store.
StoreIds(store) == { store[i].id : i \in 1..Len(store) }

\* C28: the answer of a status change (a success or a failure) or of an
\* update, arriving for a task id that the store holds no more, does not put
\* an entry with that id into the store.
RemovedTaskStaysRemoved ==
  [][ (/\ last'.op \in {"statusSaved", "statusFailed", "updated"}
       /\ last'.id \notin StoreIds(tasks))
      => last'.id \notin StoreIds(tasks') ]_vars

\* The answer of a status change or an update has arrived for a task that
\* the backend and the store have deleted.
RemovedTaskStaysRemovedWitness ==
  /\ last.op \in {"statusSaved", "statusFailed", "updated"}
  /\ query.data # <<>>
  /\ last.id \notin StoreIds(tasks)
  /\ last.id \notin { cards[i].id : i \in 1..Len(cards) }

\* C29: when a create or an update whose modal was closed after the submit
\* ends with success, a task modal that has been opened again stays open
\* and keeps its editing target.
SaveClosesOwnModalOnly ==
  [][ (/\ taskModalOpen
       /\ \E s \in Slots : /\ reqs[s].kind \in {"POST", "PUT"}
                            /\ reqs[s].phase = "refetch"
                            /\ reqs[s].closed
                            /\ reqs'[s].kind = "none"
       /\ \A s \in Slots : (reqs[s].kind \in {"POST", "PUT"} /\ reqs'[s].kind = "none")
                              => reqs[s].closed)
      => (taskModalOpen' /\ editingTask' = editingTask) ]_vars

\* C30: no column of the registry has the id 'all', and the column filter
\* set to the id of a column of the registry yields exactly the tasks whose
\* status is that id.
NoColumnIsSentinel ==
  \A i \in 1..Len(columns) :
    /\ columns[i].id # AllColumns
    /\ FilterEngine(tasks, [defaultFilters EXCEPT !.column = columns[i].id])
         = FilterSeq(LAMBDA task : task.status = columns[i].id, tasks)

====
